---- MODULE Spec2Model ----
(***************************************************************************)
(* A model of hitch.go: the Hitch router facade.  A Hitch holds a pointer  *)
(* to a shared httprouter.Router, a base path and a slice of middleware.   *)
(* Strings are sequences of one-character strings, Go slices are           *)
(* (array, len, cap) triples over a heap of backing arrays, http.Handler   *)
(* values are the closures the code builds, and a request is served by     *)
(* running the closure registered for the route.  origin, calls and served *)
(* keep, for every facade, every route and the last request, the call that *)
(* made it and its arguments: they record what was asked of the program    *)
(* and are no state of it.                                                 *)
(***************************************************************************)
EXTENDS Naturals, Sequences, FiniteSets, TLC

VARIABLES facades, heap, routers, origin, calls, served

vars == <<facades, heap, routers, origin, calls, served>>

(***************************************************************************)
(* Bounds of the model.                                                    *)
(***************************************************************************)
MaxFacades == 3
MaxScope == 4
MaxRoutes == 1
MaxSlack == 2

(***************************************************************************)
(* strings.TrimSuffix and strings.HasPrefix.                               *)
(***************************************************************************)
HasPrefix(s, prefix) ==
  /\ Len(s) >= Len(prefix)
  /\ SubSeq(s, 1, Len(prefix)) = prefix

HasSuffix(s, suffix) ==
  /\ Len(s) >= Len(suffix)
  /\ SubSeq(s, Len(s) - Len(suffix) + 1, Len(s)) = suffix

TrimSuffix(s, suffix) ==
  IF HasSuffix(s, suffix) THEN SubSeq(s, 1, Len(s) - Len(suffix)) ELSE s

(***************************************************************************)
(* func (h *Hitch) path(p string) string                                   *)
(***************************************************************************)
\* path without the TrimSuffix of the base path
pathUntrimmed(h, p) ==
  LET p2 == IF p # <<>> /\ ~HasPrefix(p, <<"/">>) THEN <<"/">> \o p ELSE p
  IN h.basePath \o p2

\* path without the leading slash for a relative segment
pathUnslashed(h, p) == TrimSuffix(h.basePath, <<"/">>) \o p

path(h, p) ==
  LET base == TrimSuffix(h.basePath, <<"/">>)
      p2 == IF p # <<>> /\ ~HasPrefix(p, <<"/">>) THEN <<"/">> \o p ELSE p
  IN base \o p2

(***************************************************************************)
(* Go slices of Middleware.  A slice is a backing array in the heap (0 for *)
(* the nil slice), a length and a capacity; the elements of the array      *)
(* beyond the length exist but are not part of the slice.                  *)
(***************************************************************************)
NilMw == [k |-> "nil", n |-> ""]

NilSlice == [arr |-> 0, len |-> 0, cap |-> 0]

Elems(hp, s) == IF s.arr = 0 THEN <<>> ELSE SubSeq(hp[s.arr], 1, s.len)

Min(a, b) == IF a <= b THEN a ELSE b

\* make([]Middleware, n)
make(hp, n) ==
  [heap |-> Append(hp, [i \in 1..n |-> NilMw]),
   slice |-> [arr |-> Len(hp) + 1, len |-> n, cap |-> n]]

\* copy(dst, src): the heap after copying min(len(dst), len(src)) elements
copy(hp, dst, src) ==
  IF Min(dst.len, src.len) = 0 THEN hp
  ELSE [hp EXCEPT ![dst.arr] =
          [i \in 1..Len(@) |-> IF i <= Min(dst.len, src.len) THEN hp[src.arr][i] ELSE @[i]]]

\* append(s, elems...): in place when the capacity suffices, otherwise into
\* a new array whose capacity is the needed length plus `slack` (the growth
\* the runtime chooses)
append(hp, s, elems, slack) ==
  LET needed == s.len + Len(elems)
  IN IF needed <= s.cap
     THEN [heap |-> IF Len(elems) = 0 THEN hp
                    ELSE [hp EXCEPT ![s.arr] =
                            [i \in 1..Len(@) |->
                               IF i > s.len /\ i <= needed THEN elems[i - s.len] ELSE @[i]]],
           slice |-> [s EXCEPT !.len = needed]]
     ELSE [heap |-> Append(hp, [i \in 1..(needed + slack) |->
                                  IF i <= s.len THEN hp[s.arr][i]
                                  ELSE IF i <= needed THEN elems[i - s.len]
                                  ELSE NilMw]),
           slice |-> [arr |-> Len(hp) + 1, len |-> needed, cap |-> needed + slack]]

(***************************************************************************)
(* Middleware and handlers.  A Middleware is a function from the next      *)
(* handler to a handler: "wrap" works, delegates and works again, "stop"   *)
(* works without delegating, "ctx" delegates with a request derived from   *)
(* the one it received, and "hm" is the closure WithHandlerMiddleware      *)
(* builds around a handler.  A handler is a terminal handler or the        *)
(* closure a middleware returned for its next handler.                     *)
(***************************************************************************)
A == [k |-> "wrap", n |-> "A"]
B == [k |-> "wrap", n |-> "B"]
C == [k |-> "wrap", n |-> "C"]
D == [k |-> "wrap", n |-> "D"]

Stopper == [k |-> "stop", n |-> "S"]

Deriver == [k |-> "ctx", n |-> "X"]

Terminal(name) == [k |-> "h", n |-> name]

\* middleware[i](handler)
Apply(m, next) == [k |-> "app", m |-> m, next |-> next]

Ev(who, ph, w, req) == [who |-> who, ph |-> ph, w |-> w, req |-> req]

RECURSIVE ServeHTTP(_, _, _)

\* the closure calling the next handler before the handler
HandlerMiddlewareServeNextFirst(handler, next, w, req) ==
  ServeHTTP(next, w, req) \o ServeHTTP(handler, w, req)

\* the closure of WithHandlerMiddleware, with the next handler applied
HandlerMiddlewareServe(handler, next, w, req) ==
  ServeHTTP(handler, w, req) \o ServeHTTP(next, w, req)

\* the Middleware value WithHandlerMiddleware passes to WithMiddleware
HandlerMiddleware(handler) == [k |-> "hm", n |-> handler.n]

\* what a handler does with (w, req): the calls it makes, in order
ServeHTTP(handler, w, req) ==
  IF handler.k = "h"
  THEN <<Ev(handler.n, "begin", w, req), Ev(handler.n, "end", w, req)>>
  ELSE LET m == handler.m
           next == handler.next
       IN CASE m.k = "wrap" ->
                 <<Ev(m.n, "pre", w, req)>> \o ServeHTTP(next, w, req)
                    \o <<Ev(m.n, "post", w, req)>>
            [] m.k = "stop" ->
                 <<Ev(m.n, "pre", w, req), Ev(m.n, "post", w, req)>>
            [] m.k = "ctx" ->
                 <<Ev(m.n, "pre", w, req)>> \o ServeHTTP(next, w, Append(req, m.n))
                    \o <<Ev(m.n, "post", w, req)>>
            [] m.k = "hm" -> HandlerMiddlewareServe(Terminal(m.n), next, w, req)

(***************************************************************************)
(* http.MethodGet and the other method constants of net/http.              *)
(***************************************************************************)
MethodGet == "GET"
MethodPut == "PUT"
MethodPost == "POST"
MethodPatch == "PATCH"
MethodDelete == "DELETE"
MethodOptions == "OPTIONS"

NoHandler == Terminal("")

Made(op, parent, seg, mw, handler) ==
  [op |-> op, parent |-> parent, seg |-> seg, mw |-> mw, handler |-> handler]

NotServed == [router |-> 0, idx |-> 0, out |-> <<>>]

(***************************************************************************)
(* func New() *Hitch                                                       *)
(***************************************************************************)
NewRouter == [HandleMethodNotAllowed |-> FALSE, routes |-> <<>>]

NewHitch(r) == [router |-> r, basePath |-> <<>>, middlewares |-> NilSlice]

Init ==
  /\ routers = <<NewRouter>>
  /\ facades = <<NewHitch(1)>>
  /\ heap = <<>>
  /\ origin = <<Made("New", 0, <<>>, <<>>, NoHandler)>>
  /\ calls = << <<>> >>
  /\ served = NotServed

New ==
  /\ routers' = Append(routers, NewRouter)
  /\ facades' = Append(facades, NewHitch(Len(routers) + 1))
  /\ origin' = Append(origin, Made("New", 0, <<>>, <<>>, NoHandler))
  /\ calls' = Append(calls, <<>>)
  /\ UNCHANGED <<heap, served>>

(***************************************************************************)
(* func (h *Hitch) SubPath(path string) *Hitch                             *)
(***************************************************************************)
\* SubPath handing the receiver's slice to the new Hitch instead of a copy
SubPathNewShared(hp, h, p) ==
  [heap |-> hp,
   hitch |-> [router |-> h.router, basePath |-> path(h, p), middlewares |-> h.middlewares]]

\* SubPath taking the segment as the new base path instead of composing it
SubPathNewReplaces(hp, h, p) ==
  LET m == IF h.middlewares.len > 0 THEN make(hp, h.middlewares.len)
           ELSE [heap |-> hp, slice |-> NilSlice]
  IN [heap |-> copy(m.heap, m.slice, h.middlewares),
      hitch |-> [router |-> h.router,
                 basePath |-> IF p # <<>> /\ ~HasPrefix(p, <<"/">>) THEN <<"/">> \o p ELSE p,
                 middlewares |-> m.slice]]

SubPathNew(hp, h, p) ==
  LET m == IF h.middlewares.len > 0 THEN make(hp, h.middlewares.len)
           ELSE [heap |-> hp, slice |-> NilSlice]
  IN [heap |-> copy(m.heap, m.slice, h.middlewares),
      hitch |-> [router |-> h.router, basePath |-> path(h, p), middlewares |-> m.slice]]

SubPath(f, p) ==
  LET r == SubPathNew(heap, facades[f], p)
  IN /\ facades' = Append(facades, r.hitch)
     /\ heap' = r.heap
     /\ origin' = Append(origin, Made("SubPath", f, p, <<>>, NoHandler))
     /\ UNCHANGED <<routers, calls, served>>

(***************************************************************************)
(* func (h *Hitch) WithMiddleware(middleware ...Middleware) *Hitch         *)
(***************************************************************************)
\* WithMiddleware appending to an empty slice instead of the copied one
WithMiddlewareNewDropsInherited(hp, h, middleware, slack) ==
  LET r == SubPathNew(hp, h, <<>>)
      a == append(r.heap, NilSlice, middleware, slack)
  IN [heap |-> a.heap, hitch |-> [r.hitch EXCEPT !.middlewares = a.slice]]

WithMiddlewareNew(hp, h, middleware, slack) ==
  LET r == SubPathNew(hp, h, <<>>)
      a == append(r.heap, r.hitch.middlewares, middleware, slack)
  IN [heap |-> a.heap, hitch |-> [r.hitch EXCEPT !.middlewares = a.slice]]

WithMiddleware(f, middleware, slack) ==
  LET r == WithMiddlewareNew(heap, facades[f], middleware, slack)
  IN /\ facades' = Append(facades, r.hitch)
     /\ heap' = r.heap
     /\ origin' = Append(origin, Made("WithMiddleware", f, <<>>, middleware, NoHandler))
     /\ UNCHANGED <<routers, calls, served>>

(***************************************************************************)
(* func (h *Hitch) WithHandlerMiddleware(handler http.Handler) *Hitch      *)
(***************************************************************************)
WithHandlerMiddleware(f, handler, slack) ==
  LET r == WithMiddlewareNew(heap, facades[f], <<HandlerMiddleware(handler)>>, slack)
  IN /\ facades' = Append(facades, r.hitch)
     /\ heap' = r.heap
     /\ origin' = Append(origin, Made("WithHandlerMiddleware", f, <<>>, <<>>, handler))
     /\ UNCHANGED <<routers, calls, served>>

(***************************************************************************)
(* func (h *Hitch) Handle(method, path string, handler http.Handler,       *)
(*                        middleware ...Middleware)                        *)
(***************************************************************************)
RECURSIVE WrapDown(_, _, _)

\* the loop stopping at i > 0, before the first middleware
WrapDownSkipsFirst(mws, i, handler) ==
  IF i < 2 THEN handler ELSE WrapDown(mws, i - 1, Apply(mws[i], handler))

\* for i := len(mws) - 1; i >= 0; i-- { handler = mws[i](handler) }
WrapDown(mws, i, handler) ==
  IF i < 1 THEN handler ELSE WrapDown(mws, i - 1, Apply(mws[i], handler))

\* Handle wrapping with the Hitch's middleware before the call's
HandleRouteExtraOutside(hp, h, method, p, handler, middleware) ==
  LET own == Elems(hp, h.middlewares)
      h1 == WrapDown(own, Len(own), handler)
      h2 == WrapDown(middleware, Len(middleware), h1)
  IN [method |-> method, path |-> path(h, p), handler |-> h2]

HandleRoute(hp, h, method, p, handler, middleware) ==
  LET h1 == WrapDown(middleware, Len(middleware), handler)
      own == Elems(hp, h.middlewares)
      h2 == WrapDown(own, Len(own), h1)
  IN [method |-> method, path |-> path(h, p), handler |-> h2]

\* h.router.Handler(method, path, handler)
RouterHandler(rs, r, route) == [rs EXCEPT ![r].routes = Append(@, route)]

\* the registration, called as `op` with `given` as its method argument
Registered(op, given, f, method, p, handler, middleware) ==
  /\ routers' = RouterHandler(routers, facades[f].router,
                              HandleRoute(heap, facades[f], method, p, handler, middleware))
  /\ calls' = [calls EXCEPT ![facades[f].router] =
                 Append(@, [op |-> op, recv |-> f, method |-> given, path |-> p,
                            handler |-> handler, mw |-> middleware,
                            own |-> Elems(heap, facades[f].middlewares)])]
  /\ UNCHANGED <<facades, heap, origin, served>>

Handle(f, method, p, handler, middleware) ==
  Registered("Handle", method, f, method, p, handler, middleware)

HandleFunc(f, method, p, handler, middleware) ==
  Registered("HandleFunc", method, f, method, p, handler, middleware)

GET(f, p, handler, middleware) ==
  Registered("GET", "", f, MethodGet, p, handler, middleware)

PUT(f, p, handler, middleware) ==
  Registered("PUT", "", f, MethodPut, p, handler, middleware)

POST(f, p, handler, middleware) ==
  Registered("POST", "", f, MethodPost, p, handler, middleware)

\* PATCH forwarding with the method of PUT
PATCHasPUT(f, p, handler, middleware) ==
  Registered("PATCH", "", f, MethodPut, p, handler, middleware)

PATCH(f, p, handler, middleware) ==
  Registered("PATCH", "", f, MethodPatch, p, handler, middleware)

DELETE(f, p, handler, middleware) ==
  Registered("DELETE", "", f, MethodDelete, p, handler, middleware)

OPTIONS(f, p, handler, middleware) ==
  Registered("OPTIONS", "", f, MethodOptions, p, handler, middleware)

(***************************************************************************)
(* A request for a registered (method, path): the router calls the         *)
(* handler registered for the route with the response writer and request.  *)
(***************************************************************************)
Serve(r, i) ==
  /\ served' = [router |-> r, idx |-> i,
                out |-> ServeHTTP(routers[r].routes[i].handler, "w", <<>>)]
  /\ UNCHANGED <<facades, heap, routers, origin, calls>>

(***************************************************************************)
(* The calls a program makes while it builds its route table and the       *)
(* requests it then serves.  Spec builds scope trees over path segments    *)
(* with and without slashes at either end; SpecScope derives deeper scopes *)
(* with middleware, the slices growing with and without spare capacity;    *)
(* SpecVerbs registers with every registration method; SpecChain builds    *)
(* chains of every kind of middleware and serves requests.                 *)
(***************************************************************************)
Facades == 1..Len(facades)

Routers == 1..Len(routers)

\* the spare capacity append leaves when it grows a slice: none, or MaxSlack
Slacks == {0, MaxSlack}

Handlers == {Terminal("h")}

CrossHandlers == {Terminal("H")}

Methods == {"GET", "HEAD"}

RECURSIVE NumRoutes(_, _)
NumRoutes(rs, r) == IF r = 0 THEN 0 ELSE Len(rs[r].routes) + NumRoutes(rs, r - 1)

MayDerive(n) == Len(facades) < n

MayRegister == NumRoutes(routers, Len(routers)) < MaxRoutes

Segs == {<<"/">>, <<"a">>, <<"/", "/">>, <<"/", "a">>, <<"a", "/">>}

Paths == {<<>>} \cup Segs

Next ==
  \/ MayDerive(MaxFacades) /\ New
  \/ MayDerive(MaxFacades) /\ \E f \in Facades, p \in Segs : SubPath(f, p)
  \/ MayDerive(MaxFacades) /\ \E f \in Facades : WithMiddleware(f, <<>>, 0)
  \/ MayRegister /\ \E f \in Facades, p \in Paths, h \in Handlers :
       Handle(f, MethodGet, p, h, <<>>)

Spec == Init /\ [][Next]_vars

ScopeSegs == {<<"a">>}

ScopeMiddleware == {<<>>, <<A, B>>}

NextScope ==
  \/ MayDerive(MaxScope) /\ \E f \in Facades, p \in ScopeSegs : SubPath(f, p)
  \/ MayDerive(MaxScope) /\ \E f \in Facades, mw \in ScopeMiddleware, c \in Slacks :
       WithMiddleware(f, mw, c)
  \/ MayDerive(MaxScope) /\ \E f \in Facades, h \in CrossHandlers, c \in Slacks :
       WithHandlerMiddleware(f, h, c)
  \/ MayRegister /\ \E f \in Facades, p \in ScopeSegs, h \in Handlers :
       Handle(f, MethodGet, p, h, <<C>>)

SpecScope == Init /\ [][NextScope]_vars

VerbSegs == {<<>>, <<"a">>}

VerbMiddleware == {<<A>>, <<A, B>>}

VerbPaths == {<<"a">>}

VerbExtra == {<<C>>}

NextVerbs ==
  \/ MayDerive(MaxFacades) /\ \E f \in Facades, p \in VerbSegs : SubPath(f, p)
  \/ MayDerive(MaxFacades) /\ \E f \in Facades, mw \in VerbMiddleware :
       WithMiddleware(f, mw, 0)
  \/ MayRegister /\ \E f \in Facades, m \in Methods, p \in VerbPaths, h \in Handlers,
                       mw \in VerbExtra : HandleFunc(f, m, p, h, mw)
  \/ MayRegister /\ \E f \in Facades, p \in VerbPaths, h \in Handlers, mw \in VerbExtra :
       GET(f, p, h, mw)
  \/ MayRegister /\ \E f \in Facades, p \in VerbPaths, h \in Handlers, mw \in VerbExtra :
       PUT(f, p, h, mw)
  \/ MayRegister /\ \E f \in Facades, p \in VerbPaths, h \in Handlers, mw \in VerbExtra :
       POST(f, p, h, mw)
  \/ MayRegister /\ \E f \in Facades, p \in VerbPaths, h \in Handlers, mw \in VerbExtra :
       PATCH(f, p, h, mw)
  \/ MayRegister /\ \E f \in Facades, p \in VerbPaths, h \in Handlers, mw \in VerbExtra :
       DELETE(f, p, h, mw)
  \/ MayRegister /\ \E f \in Facades, p \in VerbPaths, h \in Handlers, mw \in VerbExtra :
       OPTIONS(f, p, h, mw)

SpecVerbs == Init /\ [][NextVerbs]_vars

ChainPaths == {<<"/", "a">>}

ChainMiddleware == {<<A>>, <<A, B>>, <<Stopper>>, <<Deriver>>}

ChainExtra == {<<>>, <<D>>, <<C, D>>, <<C, Stopper>>}

NextChain ==
  \/ MayDerive(MaxFacades) /\ \E f \in Facades, mw \in ChainMiddleware :
       WithMiddleware(f, mw, 0)
  \/ MayDerive(MaxFacades) /\ \E f \in Facades, h \in CrossHandlers :
       WithHandlerMiddleware(f, h, 0)
  \/ MayRegister /\ \E f \in Facades, p \in ChainPaths, h \in Handlers, mw \in ChainExtra :
       Handle(f, MethodGet, p, h, mw)
  \/ \E r \in Routers : \E i \in 1..Len(routers[r].routes) : Serve(r, i)

SpecChain == Init /\ [][NextChain]_vars

(***************************************************************************)
(* The middleware list of a facade; the facade and the route a step adds.  *)
(***************************************************************************)
List(f) == Elems(heap, facades[f].middlewares)

IsPrefix(s, t) == Len(s) <= Len(t) /\ SubSeq(t, 1, Len(s)) = s

\* the step derives a facade by `op`
Derives(op) == Len(origin') = Len(origin) + 1 /\ origin'[Len(origin')].op = op

\* the step registers a route with router r
Registers(r) == Len(calls') = Len(calls) /\ Len(calls'[r]) = Len(calls[r]) + 1

Routes == UNION {{<<r, i>> : i \in 1..Len(routers[r].routes)} : r \in Routers}

RouteOf(ri) == routers[ri[1]].routes[ri[2]]

CallOf(ri) == calls[ri[1]][ri[2]]

(***************************************************************************)
(* C2: no call changes the middleware list (length and contents) of a      *)
(* facade that existed before the call.                                    *)
(***************************************************************************)
C2_ListsNeverChange ==
  [][\A f \in 1..Len(facades) :
       Elems(heap', facades'[f].middlewares) = Elems(heap, facades[f].middlewares)]_vars

\* two facades derived from one parent whose backing array has spare
\* capacity, each with middleware of its own added
C2_Witness ==
  \E c1 \in Facades, c2 \in Facades :
    /\ c1 # c2
    /\ origin[c1].parent = origin[c2].parent
    /\ origin[c1].parent # 0
    /\ LET parent == facades[origin[c1].parent].middlewares
       IN parent.len > 0 /\ parent.cap > parent.len
    /\ Len(List(c1)) > Len(List(origin[c1].parent))
    /\ Len(List(c2)) > Len(List(origin[c2].parent))
    /\ List(c1) # List(c2)

(***************************************************************************)
(* C5: WithMiddleware(M...) on a facade with list L returns a facade with  *)
(* list L followed by M in argument order, SubPath(p) returns a facade     *)
(* with list L, and so a facade's list has every ancestor's list as a      *)
(* prefix.                                                                 *)
(***************************************************************************)
RECURSIVE InheritsFrom(_, _)
InheritsFrom(f, anc) ==
  anc = 0 \/ (IsPrefix(List(anc), List(f)) /\ InheritsFrom(f, origin[anc].parent))

C5_ListIsInheritedThenAdded ==
  /\ [][LET made == origin'[Len(origin')]
            list == Elems(heap', facades'[Len(facades')].middlewares)
        IN /\ Derives("WithMiddleware") => list = List(made.parent) \o made.mw
           /\ Derives("SubPath") => list = List(made.parent)]_vars
  /\ [](\A f \in Facades : InheritsFrom(f, origin[f].parent))

C5_Witness ==
  \E f \in Facades, g \in Facades :
    /\ origin[f].op = "WithMiddleware"
    /\ origin[f].mw = <<A, B>>
    /\ List(origin[f].parent) = <<HandlerMiddleware(Terminal("H"))>>
    /\ List(f) = <<HandlerMiddleware(Terminal("H")), A, B>>
    /\ origin[g].op = "WithMiddleware"
    /\ origin[g].mw = <<>>
    /\ List(g) = <<>>

(***************************************************************************)
(* Paths, as the specification words them: a base path with one trailing   *)
(* slash removed, a segment with a leading slash unless it is empty, and   *)
(* their join.                                                             *)
(***************************************************************************)
WithoutTrailingSlash(b) ==
  IF b # <<>> /\ b[Len(b)] = "/" THEN SubSeq(b, 1, Len(b) - 1) ELSE b

WithLeadingSlash(p) == IF p = <<>> \/ p[1] = "/" THEN p ELSE <<"/">> \o p

Join(b, p) == WithoutTrailingSlash(b) \o WithLeadingSlash(p)

BasePath(f) == facades[f].basePath

(***************************************************************************)
(* C3: path(b, p) never has a double slash where base and segment join,    *)
(* puts exactly one slash before a segment that has none, and for an empty *)
(* segment is b with one trailing slash removed.  Checked of every base    *)
(* path SubPath computed and every path Handle registered.                 *)
(***************************************************************************)
JoinsWell(b, p, res) ==
  LET k == Len(res) - Len(WithLeadingSlash(p))
  IN /\ p # <<>> /\ k >= 1 => ~(res[k] = "/" /\ res[k + 1] = "/")
     /\ p # <<>> => HasSuffix(res, WithLeadingSlash(p))
     /\ p = <<>> => res = WithoutTrailingSlash(b)

C3_PathJoin ==
  /\ \A f \in Facades :
       origin[f].op = "SubPath" =>
         JoinsWell(BasePath(origin[f].parent), origin[f].seg, BasePath(f))
  /\ \A ri \in Routes :
       JoinsWell(BasePath(CallOf(ri).recv), CallOf(ri).path, RouteOf(ri).path)

(***************************************************************************)
(* C4: a derived facade has the router of the facade it was derived from   *)
(* (so the root's), its base path is the join of the segments of its       *)
(* SubPath chain, and Handle adds one route to that router under the       *)
(* method and the join of the base path and the path given.                *)
(***************************************************************************)
RECURSIVE Composed(_)
Composed(f) ==
  IF origin[f].parent = 0 THEN <<>> ELSE Join(Composed(origin[f].parent), origin[f].seg)

RECURSIVE Root(_)
Root(f) == IF origin[f].parent = 0 THEN f ELSE Root(origin[f].parent)

C4_SharedRouterComposedPath ==
  /\ [](/\ \A f \in Facades :
             /\ facades[f].router = facades[Root(f)].router
             /\ BasePath(f) = Composed(f)
             /\ origin[f].op = "SubPath"
                  /\ BasePath(origin[f].parent) = <<"/", "a", "/">>
                  /\ origin[f].seg = <<"/", "a">>
                  => BasePath(f) = <<"/", "a", "/", "a">>
        /\ \A ri \in Routes :
             LET c == CallOf(ri)
             IN /\ ri[1] = facades[Root(c.recv)].router
                /\ RouteOf(ri).method = c.method
                /\ RouteOf(ri).path = Join(Composed(c.recv), c.path)
                /\ origin[c.recv].op = "SubPath"
                     /\ origin[c.recv].parent = 1
                     /\ origin[c.recv].seg = <<"/", "a">>
                     /\ c.path = <<"/", "a">>
                     => RouteOf(ri).path = <<"/", "a", "/", "a">>)
  /\ [][\A r \in Routers :
          Registers(r) =>
            LET c == calls'[r][Len(calls'[r])]
                route == routers'[r].routes[Len(routers'[r].routes)]
            IN /\ r = facades[Root(c.recv)].router
               /\ routers' = [routers EXCEPT ![r].routes = Append(@, route)]
               /\ route.method = c.method
               /\ route.path = Join(Composed(c.recv), c.path)
               /\ UNCHANGED <<facades, heap, origin>>]_vars

C4_Witness ==
  /\ Len(facades) = 3
  /\ origin[2].op = "SubPath" /\ origin[2].parent = 1 /\ origin[2].seg = <<"a", "/">>
  /\ origin[3].op = "SubPath" /\ origin[3].parent = 2 /\ origin[3].seg = <<"/", "a">>
  /\ \E ri \in Routes :
       /\ CallOf(ri).recv = 3
       /\ CallOf(ri).path = <<"/", "a">>
       /\ RouteOf(ri).path = <<"/", "a", "/", "a", "/", "a">>

(***************************************************************************)
(* C7, as claimed: path("") is the base path unchanged, so Handle with an  *)
(* empty path registers at the base path, and WithMiddleware returns a     *)
(* facade at the same base path on which the same Handle call registers    *)
(* the same path.                                                          *)
(***************************************************************************)
C7_EmptyPathIsBasePath ==
  /\ \A ri \in Routes :
       CallOf(ri).path = <<>> => RouteOf(ri).path = BasePath(CallOf(ri).recv)
  /\ \A f \in Facades :
       origin[f].op = "WithMiddleware" =>
         /\ BasePath(f) = BasePath(origin[f].parent)
         /\ \A q \in Paths : path(facades[f], q) = path(facades[origin[f].parent], q)

(***************************************************************************)
(* C7, amended: path("") is the base path with one trailing slash removed  *)
(* (the base path itself when it ends in none), Handle with an empty path  *)
(* registers there, WithMiddleware returns a facade at the receiver's base *)
(* path with one trailing slash removed, and the same Handle call          *)
(* registers the same path on both unless the receiver's base path ends in *)
(* two slashes, when the returned facade registers it with one slash less  *)
(* at the join.                                                            *)
(***************************************************************************)
C7_EmptyPathIsTrimmedBasePath ==
  /\ \A ri \in Routes :
       CallOf(ri).path = <<>> =>
         LET b == BasePath(CallOf(ri).recv)
         IN /\ RouteOf(ri).path = WithoutTrailingSlash(b)
            /\ (b = <<>> \/ b[Len(b)] # "/") => RouteOf(ri).path = b
  /\ \A f \in Facades :
       origin[f].op = "WithMiddleware" =>
         LET b == BasePath(origin[f].parent)
         IN /\ BasePath(f) = WithoutTrailingSlash(b)
            /\ \A q \in Paths :
                 IF HasSuffix(b, <<"/", "/">>)
                 THEN /\ path(facades[origin[f].parent], q)
                           = WithoutTrailingSlash(b) \o WithLeadingSlash(q)
                      /\ path(facades[f], q)
                           = WithoutTrailingSlash(WithoutTrailingSlash(b))
                               \o WithLeadingSlash(q)
                 ELSE path(facades[f], q) = path(facades[origin[f].parent], q)

C7_Witness ==
  /\ Len(facades) = 3
  /\ BasePath(2) = <<"/", "/">>
  /\ origin[3].op = "WithMiddleware" /\ origin[3].parent = 2
  /\ BasePath(3) = <<"/">>
  /\ \E ri \in Routes :
       /\ CallOf(ri).recv = 3
       /\ CallOf(ri).path = <<>>
       /\ RouteOf(ri).path = <<>>

(***************************************************************************)
(* C10: every base path is empty or begins with a slash, a path registered *)
(* for a non-empty segment begins with a slash, and the registered path is *)
(* empty only for an empty segment on a facade whose base path without its *)
(* trailing slash is empty.                                                *)
(***************************************************************************)
C10_PathsBeginWithSlash ==
  /\ \A f \in Facades : BasePath(f) = <<>> \/ BasePath(f)[1] = "/"
  /\ \A ri \in Routes :
       /\ CallOf(ri).path # <<>> => RouteOf(ri).path # <<>> /\ RouteOf(ri).path[1] = "/"
       /\ RouteOf(ri).path = <<>> <=>
            /\ CallOf(ri).path = <<>>
            /\ WithoutTrailingSlash(BasePath(CallOf(ri).recv)) = <<>>

C10_Witness ==
  /\ \E ri \in Routes :
       /\ CallOf(ri).path = <<>>
       /\ BasePath(CallOf(ri).recv) = <<"/">>
       /\ RouteOf(ri).path = <<>>
  /\ \E f \in Facades : BasePath(f) = <<"/", "a", "/">>

(***************************************************************************)
(* C8: GET, PUT, POST, PATCH, DELETE, OPTIONS and HandleFunc do what       *)
(* Handle does with the same path, handler and middleware and the method   *)
(* of the verb (for HandleFunc the method given): that one route is added  *)
(* to the router and nothing else changes.                                 *)
(***************************************************************************)
VerbOps == {"GET", "PUT", "POST", "PATCH", "DELETE", "OPTIONS"}

C8_VerbsForwardToHandle ==
  [][\A r \in Routers :
       Registers(r) /\ calls'[r][Len(calls'[r])].op \in VerbOps \cup {"HandleFunc"} =>
         LET c == calls'[r][Len(calls'[r])]
             verb == IF c.op = "HandleFunc" THEN c.method ELSE c.op
             h == facades[c.recv]
         IN /\ r = h.router
            /\ routers' = [routers EXCEPT ![r].routes =
                             Append(@, HandleRoute(heap, h, verb, c.path, c.handler, c.mw))]
            /\ UNCHANGED <<facades, heap, origin>>]_vars

C8_Witness ==
  \E ri \in Routes :
    /\ CallOf(ri).op = "PATCH"
    /\ CallOf(ri).path = <<"a">>
    /\ CallOf(ri).mw = <<C>>
    /\ CallOf(ri).own = <<A, B>>
    /\ RouteOf(ri).method = "PATCH"
    /\ RouteOf(ri).path = <<"/", "a", "/", "a">>

(***************************************************************************)
(* The request last served: the call that registered its route, the chain  *)
(* of that route (the facade's middleware, then the call's) and who did    *)
(* what, in order.                                                         *)
(***************************************************************************)
HasServed == served.router # 0

ServedCall == calls[served.router][served.idx]

Chain == ServedCall.own \o ServedCall.mw

Steps(out) == [i \in 1..Len(out) |-> <<out[i].who, out[i].ph>>]

Reverse(s) == [i \in 1..Len(s) |-> s[Len(s) + 1 - i]]

\* what an element of the chain does before it delegates, and after
Before(m) == IF m.k = "hm" THEN <<<<m.n, "begin">>, <<m.n, "end">>>> ELSE <<<<m.n, "pre">>>>

After(m) == IF m.k = "hm" THEN <<>> ELSE <<<<m.n, "post">>>>

RECURSIVE Flat(_)
Flat(ss) == IF ss = <<>> THEN <<>> ELSE Head(ss) \o Flat(Tail(ss))

Delegates(m) == m.k # "stop"

(***************************************************************************)
(* C1: with middleware that work before and after delegating, a request    *)
(* runs the facade's middleware in declared order, then the call's in      *)
(* declared order, then the handler, and then the work after delegating in *)
(* the reverse order.                                                      *)
(***************************************************************************)
C1_DeclaredOrderThenReverse ==
  HasServed /\ (\A i \in 1..Len(Chain) : Chain[i].k = "wrap") =>
    /\ Steps(served.out)
         = [i \in 1..Len(Chain) |-> <<Chain[i].n, "pre">>]
             \o <<<<ServedCall.handler.n, "begin">>, <<ServedCall.handler.n, "end">>>>
             \o Reverse([i \in 1..Len(Chain) |-> <<Chain[i].n, "post">>])
    /\ ServedCall.own = <<A, B>> /\ ServedCall.mw = <<C, D>> =>
         [i \in 1..Len(served.out) |-> served.out[i].who]
           = <<"A", "B", "C", "D", "h", "h", "D", "C", "B", "A">>

C1_Witness ==
  /\ HasServed
  /\ ServedCall.own = <<A, B>>
  /\ ServedCall.mw = <<C, D>>
  /\ Len(served.out) = 10

(***************************************************************************)
(* C6: the handler given to WithHandlerMiddleware runs to its end before   *)
(* the next element of the chain begins, the next element is then called   *)
(* once with the request and response writer the handler was called with,  *)
(* and the handler runs after the middleware attached before it and before *)
(* the call's middleware and the terminal handler.                         *)
(***************************************************************************)
\* the number of steps of a request through the chain from element i on,
\* each element calling the next once
RECURSIVE StepsFrom(_, _)
StepsFrom(chain, i) ==
  IF i > Len(chain) THEN 2
  ELSE IF Delegates(chain[i]) THEN 2 + StepsFrom(chain, i + 1)
  ELSE 2

C6_HandlerThenNext ==
  HasServed =>
    \A j \in 1..Len(ServedCall.own) :
      LET m == Chain[j]
          start == Flat([i \in 1..(j - 1) |-> Before(Chain[i])])
          pos == Len(start) + 1
          out == served.out
          first == IF j = Len(Chain) THEN <<ServedCall.handler.n, "begin">>
                   ELSE Head(Before(Chain[j + 1]))
      IN m.k = "hm" /\ (\A i \in 1..(j - 1) : Delegates(Chain[i])) =>
           /\ SubSeq(Steps(out), 1, pos - 1) = start
           /\ Steps(out)[pos] = <<m.n, "begin">>
           /\ Steps(out)[pos + 1] = <<m.n, "end">>
           /\ Steps(out)[pos + 2] = first
           /\ out[pos + 1].req = out[pos].req
           /\ out[pos + 2].req = out[pos].req
           /\ out[pos + 2].w = out[pos].w
           /\ Len(out) = StepsFrom(Chain, 1)

C6_Witness ==
  /\ HasServed
  /\ ServedCall.own = <<Deriver, HandlerMiddleware(Terminal("H"))>>
  /\ ServedCall.mw = <<C, D>>
  /\ served.out[2] = Ev("H", "begin", "w", <<"X">>)
  /\ served.out[4] = Ev("C", "pre", "w", <<"X">>)

(***************************************************************************)
(* C9: when the k-th element of the chain does not delegate, no later      *)
(* element and not the terminal handler runs, and the elements before it   *)
(* have run their work before delegating and run their work after          *)
(* delegating in reverse order.                                            *)
(***************************************************************************)
C9_ShortCircuit ==
  HasServed =>
    \A k \in 1..Len(Chain) :
      ~Delegates(Chain[k]) /\ (\A i \in 1..(k - 1) : Delegates(Chain[i])) =>
        Steps(served.out)
          = Flat([i \in 1..(k - 1) |-> Before(Chain[i])])
              \o <<<<Chain[k].n, "pre">>, <<Chain[k].n, "post">>>>
              \o Flat(Reverse([i \in 1..(k - 1) |-> After(Chain[i])]))

C9_Witness ==
  /\ HasServed
  /\ ServedCall.own = <<A, B>>
  /\ ServedCall.mw = <<C, Stopper>>
  /\ Len(served.out) = 8

====
